---- MODULE Spec2Model ----
(***************************************************************************)
(* Model of the 5-stage pipelined CPU simulator of src/cpu_hh.tsx: the     *)
(* React state of PipelinedCPUSimulator and its event handlers.  Every     *)
(* handler runs to completion on the state captured at the last render,    *)
(* so a handler is one atomic action reading the unprimed variables.       *)
(*                                                                         *)
(* Conventions.  JavaScript arrays are 0-based: position idx of a          *)
(* sequence s is s[idx + 1]; registers and memory are functions on 0..31   *)
(* and 0..63.  A JavaScript string is the sequence of its characters, so   *)
(* that startsWith, includes and match are computed on the characters; a   *)
(* character is a one-character string, but for U+2028 and U+2029, which   *)
(* are written by code point.                                              *)
(* An explanation is kept as the record of its template (kind) and of the  *)
(* values interpolated into it; Render gives the string the code builds,   *)
(* and whatever the code reads back from an explanation is read from the   *)
(* rendered string.  The wall-clock stamp of an execution-log entry        *)
(* (toLocaleTimeString) is never read back and is left out of the entry.   *)
(* The flags that only choose what is rendered (editMode, showForwarding,  *)
(* showHazardDetails, exportData) are left out.  The authoring form        *)
(* (instInput, selectedInst) is not kept between handlers: what it holds   *)
(* when Add or Update is pressed is an input of those actions.             *)
(***************************************************************************)
EXTENDS Integers, Sequences, FiniteSets, TLC

VARIABLES cycle, registers, memory, instructions, forwarding, explanations,
          stalls, branchHistory, predictionEnabled, flushing, history,
          editInstructions, execLog, branchStrategy, wbResults,
          saturatingTable

vars == <<cycle, registers, memory, instructions, forwarding, explanations,
          stalls, branchHistory, predictionEnabled, flushing, history,
          editInstructions, execLog, branchStrategy, wbResults,
          saturatingTable>>

(* ---------------------------- bounds ----------------------------------- *)

\* execution-log entries (non-draining advance calls) between two resets
MaxLog == 6
\* snapshots retained by the history
MaxHist == 1
\* instructions the editor list is grown to by Add
MaxEditLen == 5

(* ------------------------ module-level constants ----------------------- *)

pipelineStages == <<"IF", "ID", "EX", "MEM", "WB">>

NumRegisters == 32
NumMemory == 64

defaultRegisters == [i \in 0..(NumRegisters - 1) |-> 0]
defaultMemory == [i \in 0..(NumMemory - 1) |-> 0]

RInst(id, text, rd, rs, rt) ==
    [id |-> id, text |-> text, type |-> "R", rd |-> rd, rs |-> rs, rt |-> rt]
IInst(id, text, rt, base, offset) ==
    [id |-> id, text |-> text, type |-> "I", rt |-> rt, base |-> base,
     offset |-> offset]
BInst(id, text, rs, rt) ==
    [id |-> id, text |-> text, type |-> "B", rs |-> rs, rt |-> rt]

\* "ADD R1, R2, R3"
TextAdd1 ==
    <<"A", "D", "D", " ", "R", "1", ",", " ", "R", "2", ",", " ", "R", "3">>

\* "SUB R4, R1, R5"
TextSub2 ==
    <<"S", "U", "B", " ", "R", "4", ",", " ", "R", "1", ",", " ", "R", "5">>

\* "BEQ R4, R6, LABEL"
TextBeq3 ==
    <<"B", "E", "Q", " ", "R", "4", ",", " ", "R", "6", ",", " ", "L", "A",
      "B", "E", "L">>

\* "LW R7, 0(R1)"
TextLw4 ==
    <<"L", "W", " ", "R", "7", ",", " ", "0", "(", "R", "1", ")">>

\* "SW R7, 4(R1)"
TextSw5 ==
    <<"S", "W", " ", "R", "7", ",", " ", "4", "(", "R", "1", ")">>

instructionsExampleTyped ==
    << RInst(1, TextAdd1, 1, 2, 3),
       RInst(2, TextSub2, 4, 1, 5),
       BInst(3, TextBeq3, 4, 6),
       IInst(4, TextLw4, 7, 1, 0),
       IInst(5, TextSw5, 7, 1, 4) >>

branchStrategies == <<"always-not-taken", "always-taken", "1bit", "2bit">>

(* ------------------------------ strings -------------------------------- *)

\* str.startsWith(prefix)
StartsWith(str, prefix) ==
    /\ Len(prefix) <= Len(str)
    /\ SubSeq(str, 1, Len(prefix)) = prefix

\* the literal lit stands in str at position i (1-based)
LitAt(str, i, lit) ==
    /\ i >= 1
    /\ i + Len(lit) - 1 <= Len(str)
    /\ \A k \in 1..Len(lit) : str[i + k - 1] = lit[k]

\* str.includes(needle)
Includes(str, needle) ==
    \E i \in 1..(Len(str) - Len(needle) + 1) : LitAt(str, i, needle)

\* the decimal digits of a template value ${n}, n >= 0
DigitChars == <<"0", "1", "2", "3", "4", "5", "6", "7", "8", "9">>
RECURSIVE Digits(_)
Digits(n) ==
    IF n < 10 THEN <<DigitChars[n + 1]>>
    ELSE Digits(n \div 10) \o <<DigitChars[(n % 10) + 1]>>

\* strs.join(sep)
RECURSIVE Join(_, _)
Join(strs, sep) ==
    IF Len(strs) = 0 THEN <<>>
    ELSE IF Len(strs) = 1 THEN strs[1]
    ELSE strs[1] \o sep \o Join(Tail(strs), sep)

\* the prefix "BEQ"
PrefixBEQ ==
    <<"B", "E", "Q">>

\* the prefix "LW"
PrefixLW ==
    <<"L", "W">>

\* the prefix "SW"
PrefixSW ==
    <<"S", "W">>

EmptyMap == [k \in {} |-> 0]
Lookup(map, key, default) == IF key \in DOMAIN map THEN map[key] ELSE default
Put(map, key, val) == (key :> val) @@ map

Min(a, b) == IF a < b THEN a ELSE b
Max(a, b) == IF a > b THEN a ELSE b
Last(s) == s[Len(s)]

(* ---------------------------- pure functions --------------------------- *)

\* getPipelineState counting positions from 1: stageIndex = cycle - (idx + 1)
getPipelineState_FromOne(c, insts) ==
    [si \in 1..Len(pipelineStages) |->
        LET F[k \in 0..Len(insts)] ==
                IF k = 0 THEN <<>>
                ELSE IF c - k = si - 1
                     THEN Append(F[k - 1], insts[k].text)
                     ELSE F[k - 1]
        IN F[Len(insts)]]

\* getPipelineState keeping finished instructions in the last stage:
\* stageIndex = Math.min(cycle - idx, pipelineStages.length - 1)
getPipelineState_StaysInLast(c, insts) ==
    [si \in 1..Len(pipelineStages) |->
        LET F[k \in 0..Len(insts)] ==
                IF k = 0 THEN <<>>
                ELSE IF Min(c - (k - 1), Len(pipelineStages) - 1) = si - 1
                     THEN Append(F[k - 1], insts[k].text)
                     ELSE F[k - 1]
        IN F[Len(insts)]]

\* instructions.forEach((inst, idx) => ...) pushing inst.text on state[cycle - idx]
getPipelineState(c, insts) ==
    [si \in 1..Len(pipelineStages) |->
        LET F[k \in 0..Len(insts)] ==
                IF k = 0 THEN <<>>
                ELSE IF c - (k - 1) = si - 1
                     THEN Append(F[k - 1], insts[k].text)
                     ELSE F[k - 1]
        IN F[Len(insts)]]

\* WriteSet taking every I-type instruction, SW included, to write rt
WriteSet_AnyIType(instA) ==
    IF instA.type = "R" THEN {instA.rd}
    ELSE IF instA.type = "I" THEN {instA.rt}
    ELSE {}

WriteSet(instA) ==
    IF instA.type = "R" THEN {instA.rd}
    ELSE IF instA.type = "I" /\ StartsWith(instA.text, PrefixLW) THEN {instA.rt}
    ELSE {}

ReadSet(instB) ==
    IF instB.type = "R" THEN {instB.rs, instB.rt}
    ELSE IF instB.type = "I" THEN {instB.rt, instB.base}
    ELSE {}

detectRawHazard(instA, instB) == WriteSet(instA) \cap ReadSet(instB) # {}

detectControlHazard(inst) == inst.type = "B"

isBranchTaken(inst, regs) ==
    IF inst.type = "B" /\ StartsWith(inst.text, PrefixBEQ)
    THEN regs[inst.rs] = regs[inst.rt]
    ELSE FALSE

\* predictBranch with a fresh 2-bit counter read as 2 (weakly taken)
predictBranch_WeaklyTaken(inst, hist, strategy, table) ==
    CASE strategy = "always-taken" -> TRUE
      [] strategy = "always-not-taken" -> FALSE
      [] strategy = "1bit" -> Lookup(hist, inst.id, FALSE)
      [] strategy = "2bit" -> Lookup(table, inst.id, 2) > 1
      [] OTHER -> FALSE

predictBranch(inst, hist, strategy, table) ==
    CASE strategy = "always-taken" -> TRUE
      [] strategy = "always-not-taken" -> FALSE
      [] strategy = "1bit" -> Lookup(hist, inst.id, FALSE)
      [] strategy = "2bit" -> Lookup(table, inst.id, 1) > 1
      [] OTHER -> FALSE

(* --------------------- explanation and log strings --------------------- *)

\* `Stalling at cycle ${cycle} due to RAW hazard between "${previous.text}" and "${current.text}".`
StallExplanation(c, previous, current) ==
    [kind |-> "Stalling", cycle |-> c, prev |-> previous.text, cur |-> current.text]

\* `Misprediction at cycle ${cycle}: predicted ..., actual was .... Flushing pipeline.`
MispredictionExplanation(c, predictedTaken, taken) ==
    [kind |-> "Misprediction", cycle |-> c,
     predicted |-> IF predictedTaken THEN "taken" ELSE "not taken",
     actual |-> IF taken THEN "taken" ELSE "not taken"]

\* `Branch prediction correct at cycle ${cycle}.`
CorrectExplanation(c) == [kind |-> "Branch prediction correct", cycle |-> c]

\* `Control hazard resolved by stalling at cycle ${cycle}. Flushing pipeline.`
ResolvedExplanation(c) == [kind |-> "Control hazard resolved", cycle |-> c]

\* `Cycle ${cycle} executed without stall.`
NoStallExplanation(c) == [kind |-> "executed without stall", cycle |-> c]

\* `Flushing pipeline at cycle ${cycle}` + (caused by: ...) + | Flushed instructions: ...
\* causedBy is the empty string when causingInst is null.
FlushExplanation(c, causingInst, flushedInsts) ==
    [kind |-> "Flushing pipeline", cycle |-> c, causedBy |-> causingInst,
     flushed |-> flushedInsts]

\* `Cycle ${cycle} @ ${timestamp}: ` + explanation
LogEntry(c, explanation) == [cycle |-> c, text |-> explanation]

\* the characters of 'Stalling at cycle '
LitStallingAtCycle ==
    <<"S", "t", "a", "l", "l", "i", "n", "g", " ", "a", "t", " ", "c", "y",
      "c", "l", "e", " ">>

\* the characters of ' due to RAW hazard between "'
LitDueToRawBetween ==
    <<" ", "d", "u", "e", " ", "t", "o", " ", "R", "A", "W", " ", "h", "a",
      "z", "a", "r", "d", " ", "b", "e", "t", "w", "e", "e", "n", " ", "\"">>

\* the characters of '" and "'
LitQuoteAndQuote ==
    <<"\"", " ", "a", "n", "d", " ", "\"">>

\* the characters of '".'
LitQuoteStop ==
    <<"\"", ".">>

\* the characters of 'Misprediction at cycle '
LitMispredictionAtCycle ==
    <<"M", "i", "s", "p", "r", "e", "d", "i", "c", "t", "i", "o", "n", " ",
      "a", "t", " ", "c", "y", "c", "l", "e", " ">>

\* the characters of ': predicted '
LitPredicted ==
    <<":", " ", "p", "r", "e", "d", "i", "c", "t", "e", "d", " ">>

\* the characters of ', actual was '
LitActualWas ==
    <<",", " ", "a", "c", "t", "u", "a", "l", " ", "w", "a", "s", " ">>

\* the characters of '. Flushing pipeline.'
LitStopFlushing ==
    <<".", " ", "F", "l", "u", "s", "h", "i", "n", "g", " ", "p", "i", "p",
      "e", "l", "i", "n", "e", ".">>

\* the characters of 'Branch prediction correct at cycle '
LitCorrectAtCycle ==
    <<"B", "r", "a", "n", "c", "h", " ", "p", "r", "e", "d", "i", "c", "t",
      "i", "o", "n", " ", "c", "o", "r", "r", "e", "c", "t", " ", "a", "t",
      " ", "c", "y", "c", "l", "e", " ">>

\* the characters of '.'
LitStop ==
    <<".">>

\* the characters of 'Control hazard resolved by stalling at cycle '
LitResolvedAtCycle ==
    <<"C", "o", "n", "t", "r", "o", "l", " ", "h", "a", "z", "a", "r", "d",
      " ", "r", "e", "s", "o", "l", "v", "e", "d", " ", "b", "y", " ", "s",
      "t", "a", "l", "l", "i", "n", "g", " ", "a", "t", " ", "c", "y", "c",
      "l", "e", " ">>

\* the characters of 'Cycle '
LitCycle ==
    <<"C", "y", "c", "l", "e", " ">>

\* the characters of ' executed without stall.'
LitExecutedWithoutStall ==
    <<" ", "e", "x", "e", "c", "u", "t", "e", "d", " ", "w", "i", "t", "h",
      "o", "u", "t", " ", "s", "t", "a", "l", "l", ".">>

\* the characters of 'Flushing pipeline at cycle '
LitFlushingAtCycle ==
    <<"F", "l", "u", "s", "h", "i", "n", "g", " ", "p", "i", "p", "e", "l",
      "i", "n", "e", " ", "a", "t", " ", "c", "y", "c", "l", "e", " ">>

\* the characters of ' (caused by: '
LitCausedBy ==
    <<" ", "(", "c", "a", "u", "s", "e", "d", " ", "b", "y", ":", " ">>

\* the characters of ')'
LitParen ==
    <<")">>

\* the characters of ' | Flushed instructions: '
LitFlushedInstructions ==
    <<" ", "|", " ", "F", "l", "u", "s", "h", "e", "d", " ", "i", "n", "s",
      "t", "r", "u", "c", "t", "i", "o", "n", "s", ":", " ">>

\* the characters of ', '
LitCommaSpace ==
    <<",", " ">>

\* the characters of 'taken'
LitTaken ==
    <<"t", "a", "k", "e", "n">>

\* the characters of 'not taken'
LitNotTaken ==
    <<"n", "o", "t", " ", "t", "a", "k", "e", "n">>

\* the characters of 'Misprediction'
LitMisprediction ==
    <<"M", "i", "s", "p", "r", "e", "d", "i", "c", "t", "i", "o", "n">>

\* the characters of 'Control hazard resolved'
LitControlHazardResolved ==
    <<"C", "o", "n", "t", "r", "o", "l", " ", "h", "a", "z", "a", "r", "d",
      " ", "r", "e", "s", "o", "l", "v", "e", "d">>

\* the characters of 'between "'
LitBetweenQuote ==
    <<"b", "e", "t", "w", "e", "e", "n", " ", "\"">>

\* the characters of '"'
LitQuote ==
    <<"\"">>

\* the characters of 'at cycle '
LitAtCycle ==
    <<"a", "t", " ", "c", "y", "c", "l", "e", " ">>

\* the characters of ': '
LitColonSpace ==
    <<":", " ">>

\* ${x ? "taken" : "not taken"}
TakenChars(word) == IF word = "taken" THEN LitTaken ELSE LitNotTaken

\* the string each template literal of handleNextCycle evaluates to
Render(exp) ==
    CASE exp.kind = "Stalling" ->
           LitStallingAtCycle \o Digits(exp.cycle) \o LitDueToRawBetween
             \o exp.prev \o LitQuoteAndQuote \o exp.cur \o LitQuoteStop
      [] exp.kind = "Misprediction" ->
           LitMispredictionAtCycle \o Digits(exp.cycle) \o LitPredicted
             \o TakenChars(exp.predicted) \o LitActualWas
             \o TakenChars(exp.actual) \o LitStopFlushing
      [] exp.kind = "Branch prediction correct" ->
           LitCorrectAtCycle \o Digits(exp.cycle) \o LitStop
      [] exp.kind = "Control hazard resolved" ->
           LitResolvedAtCycle \o Digits(exp.cycle) \o LitStopFlushing
      [] exp.kind = "executed without stall" ->
           LitCycle \o Digits(exp.cycle) \o LitExecutedWithoutStall
      [] exp.kind = "Flushing pipeline" ->
           LitFlushingAtCycle \o Digits(exp.cycle)
             \o (IF exp.causedBy # <<>>
                 THEN LitCausedBy \o exp.causedBy \o LitParen ELSE <<>>)
             \o (IF Len(exp.flushed) # 0
                 THEN LitFlushedInstructions \o Join(exp.flushed, LitCommaSpace)
                 ELSE <<>>)

\* exp.includes('Misprediction') || exp.includes('Control hazard resolved')
MentionsControlHazard(exp) ==
    \E str \in {Render(exp)} :
        \/ Includes(str, LitMisprediction)
        \/ Includes(str, LitControlHazardResolved)

\* the value of .pop(): the last matching index (1-based here), or 0 for undefined
lastControlHazardIdx(exps) ==
    LET hits == {i \in 1..Len(exps) : MentionsControlHazard(exps[i])}
    IN IF hits = {} THEN 0 ELSE CHOOSE i \in hits : \A j \in hits : j <= i

\* U+2028 LINE SEPARATOR and U+2029 PARAGRAPH SEPARATOR: one character each,
\* written by code point because a string of this language cannot hold them
LineSeparator == "U+2028"
ParagraphSeparator == "U+2029"

\* what . does not match (the regular expression has no s flag): LF, CR and
\* the two Unicode separators
LineTerminators == {"\n", "\r", LineSeparator, ParagraphSeparator}
\* (.+?) can cover str[from..to]
DotRun(str, from, to) ==
    /\ from <= to
    /\ to <= Len(str)
    /\ \A k \in from..to : str[k] \notin LineTerminators

\* /between "(.+?)" and "(.+?)"/ tried at position i: the lengths group 1 can
\* take; the lazy quantifier settles on the least of them
BetweenGroupLens(str, i) ==
    IF ~LitAt(str, i, LitBetweenQuote) THEN {}
    ELSE {j \in 1..Len(str) :
            /\ DotRun(str, i + Len(LitBetweenQuote), i + Len(LitBetweenQuote) + j - 1)
            /\ LitAt(str, i + Len(LitBetweenQuote) + j, LitQuoteAndQuote)
            /\ \E p2 \in {i + Len(LitBetweenQuote) + j + Len(LitQuoteAndQuote)} :
                  \E k \in 1..Len(str) :
                     /\ DotRun(str, p2, p2 + k - 1)
                     /\ LitAt(str, p2 + k, LitQuote)}

\* /at cycle (\d+): / tried at position i: where group 4 would start, as a set
\* (empty for no match)
AtCycleGroupStart(str, i) ==
    IF ~LitAt(str, i, LitAtCycle) THEN {}
    ELSE {i + Len(LitAtCycle) + m + Len(LitColonSpace) :
            m \in {m \in 1..(Len(str) - i) :
                     /\ i + Len(LitAtCycle) + m - 1 <= Len(str)
                     /\ \A k \in 0..(m - 1) :
                           \E d \in 1..Len(DigitChars) :
                              str[i + Len(LitAtCycle) + k] = DigitChars[d]
                     /\ LitAt(str, i + Len(LitAtCycle) + m, LitColonSpace)}}

\* /(.+?)(?:\.|$)/ from position q: the lengths group 4 can take.  A group
\* ends before a full stop or at the end of the string, and none of its
\* characters is a line terminator.
StopGroupLens(str, q) ==
    {n \in 1..(Len(str) - q + 1) :
        /\ \/ q + n = Len(str) + 1
           \/ str[q + n] = LitStop[1]
        /\ DotRun(str, q, q + n - 1)}

LeastOf(S) == CHOOSE n \in S : \A m \in S : n <= m

\* the positions at which one of the two alternatives matches
MatchPositions(str) ==
    {i \in 1..Len(str) :
        \/ BetweenGroupLens(str, i) # {}
        \/ \E q \in AtCycleGroupStart(str, i) : StopGroupLens(str, q) # {}}

\* the match found at position i: group 1 when the first alternative matched,
\* group 4 when the second did
MatchGroupAt(str, i) ==
    IF BetweenGroupLens(str, i) # {}
    THEN CHOOSE g \in {SubSeq(str, p1, p1 + n - 1) :
                          p1 \in {i + Len(LitBetweenQuote)},
                          n \in {LeastOf(BetweenGroupLens(str, i))}} : TRUE
    ELSE CHOOSE g \in {SubSeq(str, qn[1], qn[1] + qn[2] - 1) :
                          qn \in {<<q, LeastOf(StopGroupLens(str, q))>> :
                                     q \in AtCycleGroupStart(str, i)}} : TRUE

\* const match = exp.match(/between "(.+?)" and "(.+?)"|at cycle (\d+): (.+?)(?:\.|$)/);
\* causingInst = match ? (match[4] ? String(match[4]) : (match[1] || match[2] || null)) : null
\* The match is the leftmost one; null is the empty string here.
MatchCause(str) ==
    LET found == {MatchGroupAt(str, i) :
                    i \in {LeastOf(h) : h \in {MatchPositions(str)} \ {{}}}}
    IN IF found = {} THEN <<>> ELSE CHOOSE g \in found : TRUE

\* let causingInst = null; if (lastControlHazardIdx !== undefined && ... !== -1) { ... }
causingInstOf(exps) ==
    LET found == {MatchCause(str) :
                    str \in {Render(exps[i]) :
                               i \in {lastControlHazardIdx(exps)} \ {0}}}
    IN IF found = {} THEN <<>> ELSE CHOOSE g \in found : TRUE

\* pipelineStages.slice(0, -1).flatMap((stage, idx) => getPipelineState(...)[idx])
flushedInstsOf(c, insts) ==
    LET ps == getPipelineState(c, insts)
    IN ps[1] \o ps[2] \o ps[3] \o ps[4]

(* ------------------------- write-back results -------------------------- *)

\* instructions.find(i => i.text === instText): the first instruction with that text
FindByText(insts, instText) ==
    LET hits == {k \in 1..Len(insts) : insts[k].text = instText}
    IN insts[CHOOSE k \in hits : \A j \in hits : k <= j]

\* the result string: its template (form) and the values interpolated into it
ResultText(instObj, regs) ==
    IF instObj.type = "R"
    THEN [form |-> "Rrd = a op b", rd |-> instObj.rd,
          a |-> regs[instObj.rs], b |-> regs[instObj.rt]]
    ELSE IF instObj.type = "I" /\ StartsWith(instObj.text, PrefixLW)
    THEN [form |-> "Rrt loaded from Maddr", rt |-> instObj.rt,
          addr |-> regs[instObj.base] + instObj.offset]
    ELSE IF instObj.type = "I" /\ StartsWith(instObj.text, PrefixSW)
    THEN [form |-> "Maddr = Rrt", rt |-> instObj.rt,
          addr |-> regs[instObj.base] + instObj.offset]
    ELSE IF instObj.type = "B"
    THEN [form |-> "Branch evaluated: taken", taken |-> isBranchTaken(instObj, regs)]
    ELSE [form |-> ""]

WbRecord(c, instObj, regs, mem) ==
    [cycle |-> c, inst |-> instObj.text, result |-> ResultText(instObj, regs),
     registers |-> regs, memory |-> mem]

\* WbAppend reading the MEM stage (pipelineStages.length - 2) for the WB stage
WbAppend_MemStage(results, c, insts, regs, mem) ==
    LET wbInsts == getPipelineState(c, insts)[Len(pipelineStages) - 1]
        F[k \in 0..Len(wbInsts)] ==
            IF k = 0 THEN results
            ELSE Append(F[k - 1], WbRecord(c, FindByText(insts, wbInsts[k]), regs, mem))
    IN F[Len(wbInsts)]

\* wbInsts.forEach(instText => { ... setWbResults(r => [...r, record]) })
WbAppend(results, c, insts, regs, mem) ==
    LET wbInsts == getPipelineState(c, insts)[Len(pipelineStages)]
        F[k \in 0..Len(wbInsts)] ==
            IF k = 0 THEN results
            ELSE Append(F[k - 1], WbRecord(c, FindByText(insts, wbInsts[k]), regs, mem))
    IN F[Len(wbInsts)]

(* ------------------------------ programs ------------------------------- *)

\* Texts typed into the authoring form.
\* "ADD R8, R9, R10"
TextAdd8 ==
    <<"A", "D", "D", " ", "R", "8", ",", " ", "R", "9", ",", " ", "R", "1",
      "0">>

\* "BNE R1, R2, LABEL"
TextBne ==
    <<"B", "N", "E", " ", "R", "1", ",", " ", "R", "2", ",", " ", "L", "A",
      "B", "E", "L">>

\* "SUB R11, R12, R13"
TextSub11 ==
    <<"S", "U", "B", " ", "R", "1", "1", ",", " ", "R", "1", "2", ",", " ",
      "R", "1", "3">>

\* "ADD R14, R15, R16"
TextAdd14 ==
    <<"A", "D", "D", " ", "R", "1", "4", ",", " ", "R", "1", "5", ",", " ",
      "R", "1", "6">>

\* "BEQ R5, R7, LABEL"
TextBeq57 ==
    <<"B", "E", "Q", " ", "R", "5", ",", " ", "R", "7", ",", " ", "L", "A",
      "B", "E", "L">>

\* "LWU R7, 0(R1)"
TextLwu ==
    <<"L", "W", "U", " ", "R", "7", ",", " ", "0", "(", "R", "1", ")">>

\* "ADD R2, R7, R3"
TextAdd2 ==
    <<"A", "D", "D", " ", "R", "2", ",", " ", "R", "7", ",", " ", "R", "3">>

\* "BEQZ R4, R6, LABEL"
TextBeqz ==
    <<"B", "E", "Q", "Z", " ", "R", "4", ",", " ", "R", "6", ",", " ", "L",
      "A", "B", "E", "L">>

\* "BEQ R4, R6, Misprediction"
TextBeqMisprediction ==
    <<"B", "E", "Q", " ", "R", "4", ",", " ", "R", "6", ",", " ", "M", "i",
      "s", "p", "r", "e", "d", "i", "c", "t", "i", "o", "n">>

\* "BEQ R4, R6, at cycle 9: Misprediction\u2028x" (U+2028 pasted into the
\* text field, which strips only LF and CR)
TextBeqLineSeparator ==
    <<"B", "E", "Q", " ", "R", "4", ",", " ", "R", "6", ",", " ", "a", "t",
      " ", "c", "y", "c", "l", "e", " ", "9", ":", " ", "M", "i", "s", "p",
      "r", "e", "d", "i", "c", "t", "i", "o", "n", LineSeparator, "x">>

\* Sequences the instruction editor can hold (built there by deleting example
\* instructions and adding new ones, whose ids are Date.now() values).
HazardFreePair ==
    << RInst(1, TextAdd1, 1, 2, 3),
       RInst(1001, TextAdd8, 8, 9, 10) >>

HazardFreeSingle == << RInst(1, TextAdd1, 1, 2, 3) >>

BranchPair ==
    << RInst(1, TextAdd1, 1, 2, 3),
       BInst(3, TextBeq3, 4, 6) >>

BranchFirst ==
    << BInst(3, TextBeq3, 4, 6),
       BInst(1002, TextBne, 1, 2) >>

PendingSequences == {HazardFreeSingle, HazardFreePair, BranchPair, BranchFirst}

\* four independent R-type instructions, then two branches in a row
LateBranches ==
    << RInst(1, TextAdd1, 1, 2, 3),
       RInst(1001, TextAdd8, 8, 9, 10),
       RInst(1003, TextSub11, 11, 12, 13),
       RInst(1004, TextAdd14, 14, 15, 16),
       BInst(1005, TextBeq3, 4, 6),
       BInst(1006, TextBeq57, 5, 7) >>

\* mnemonics that only begin with LW and BEQ: a load whose target the next
\* instruction reads, then a branch on two equal registers
LongMnemonics ==
    << IInst(1007, TextLwu, 7, 1, 0),
       RInst(1008, TextAdd2, 2, 7, 3),
       BInst(1009, TextBeqz, 4, 6) >>

\* a branch whose label is the word the drain step searches the explanations for
MispredictionLabel ==
    << RInst(1, TextAdd1, 1, 2, 3),
       BInst(1010, TextBeqMisprediction, 4, 6) >>

\* a branch whose label reads like the start of an explanation and is cut by a
\* line separator, which ends what the drain step can extract from it
LineSeparatorLabel ==
    << RInst(1, TextAdd1, 1, 2, 3),
       BInst(1013, TextBeqLineSeparator, 4, 6) >>

\* Add pressed twice on the untouched form {id: 0, text: "", type: "R", rd: 0,
\* rs: 0, rt: 0}, after the example instructions were deleted
DefaultForms ==
    << RInst(1011, <<>>, 0, 0, 0),
       RInst(1012, <<>>, 0, 0, 0) >>

(* ------------------------------- Init ---------------------------------- *)

\* The useState initial values.
Init ==
    /\ cycle = 0
    /\ registers = defaultRegisters
    /\ memory = defaultMemory
    /\ instructions = instructionsExampleTyped
    /\ forwarding = TRUE
    /\ explanations = <<>>
    /\ stalls = 0
    /\ branchHistory = EmptyMap
    /\ predictionEnabled = TRUE
    /\ flushing = 0
    /\ history = <<>>
    /\ editInstructions = instructionsExampleTyped
    /\ execLog = <<>>
    /\ branchStrategy = branchStrategies[1]
    /\ wbResults = <<>>
    /\ saturatingTable = EmptyMap

(* --------------------------- handleNextCycle --------------------------- *)

\* AdvanceFrame with the advance call writing a result into register 1
AdvanceFrame_WritesRegister ==
    /\ registers' = [registers EXCEPT ![1] = 1]
    /\ UNCHANGED <<memory, instructions, forwarding, predictionEnabled,
                   history, editInstructions, branchStrategy>>

\* AdvanceFrame with the advance call saving a snapshot before it mutates anything
AdvanceFrame_SavesHistory ==
    /\ history' = Append(history,
                         [cycle |-> cycle, registers |-> registers, memory |-> memory,
                          instructions |-> instructions, forwarding |-> forwarding,
                          explanations |-> explanations, stalls |-> stalls,
                          branchHistory |-> branchHistory,
                          predictionEnabled |-> predictionEnabled,
                          flushing |-> flushing])
    /\ UNCHANGED <<registers, memory, instructions, forwarding, predictionEnabled,
                   editInstructions, branchStrategy>>

\* what no branch of handleNextCycle assigns
AdvanceFrame ==
    UNCHANGED <<registers, memory, instructions, forwarding, predictionEnabled,
                history, editInstructions, branchStrategy>>

\* DrainStep charging a stall for each drained cycle
DrainStep_CountsStall ==
    /\ cycle' = cycle + 1
    /\ explanations' =
         Append(explanations,
                FlushExplanation(cycle, causingInstOf(explanations),
                                 flushedInstsOf(cycle, instructions)))
    /\ flushing' = flushing - 1
    /\ stalls' = stalls + 1
    /\ UNCHANGED <<execLog, wbResults, branchHistory, saturatingTable>>

\* DrainStep that counts the flush down without moving on
DrainStep_KeepsCycle ==
    /\ explanations' =
         Append(explanations,
                FlushExplanation(cycle, causingInstOf(explanations),
                                 flushedInstsOf(cycle, instructions)))
    /\ flushing' = flushing - 1
    /\ UNCHANGED <<cycle, stalls, execLog, wbResults, branchHistory, saturatingTable>>

\* DrainStep with setFlushing(0) for setFlushing(f => f - 1)
DrainStep_ClearsFlush ==
    /\ cycle' = cycle + 1
    /\ explanations' =
         Append(explanations,
                FlushExplanation(cycle, causingInstOf(explanations),
                                 flushedInstsOf(cycle, instructions)))
    /\ flushing' = 0
    /\ UNCHANGED <<stalls, execLog, wbResults, branchHistory, saturatingTable>>

\* DrainStep that also runs the write-back tail of the handler
DrainStep_WritesBack ==
    /\ cycle' = cycle + 1
    /\ explanations' =
         Append(explanations,
                FlushExplanation(cycle, causingInstOf(explanations),
                                 flushedInstsOf(cycle, instructions)))
    /\ flushing' = flushing - 1
    /\ wbResults' = WbAppend(wbResults, cycle, instructions, registers, memory)
    /\ UNCHANGED <<stalls, execLog, branchHistory, saturatingTable>>

\* if (flushing > 0) { ... return; }
DrainStep ==
    /\ cycle' = cycle + 1
    /\ explanations' =
         Append(explanations,
                FlushExplanation(cycle, causingInstOf(explanations),
                                 flushedInstsOf(cycle, instructions)))
    /\ flushing' = flushing - 1
    /\ UNCHANGED <<stalls, execLog, wbResults, branchHistory, saturatingTable>>

\* RawStallStep with the early return lost: the cycle advances as well
RawStallStep_Advances(previous, current) ==
    LET explanation == StallExplanation(cycle, previous, current)
    IN /\ explanations' = Append(explanations, explanation)
       /\ execLog' = Append(execLog, LogEntry(cycle, explanation))
       /\ stalls' = stalls + 1
       /\ cycle' = cycle + 1
       /\ UNCHANGED <<flushing, wbResults, branchHistory, saturatingTable>>

\* if (!forwarding && detectRawHazard(previous, current)) { ... return; }
RawStallStep(previous, current) ==
    LET explanation == StallExplanation(cycle, previous, current)
    IN /\ explanations' = Append(explanations, explanation)
       /\ execLog' = Append(execLog, LogEntry(cycle, explanation))
       /\ stalls' = stalls + 1
       /\ UNCHANGED <<cycle, flushing, wbResults, branchHistory, saturatingTable>>

\* NextCounter with counter - 1 in place of Math.max(0, counter - 1)
NextCounter_NoFloor(counter, taken) ==
    IF taken THEN Min(3, counter + 1) ELSE counter - 1

\* let counter = saturatingTable[current.id] ?? 1;
\* if (taken) counter = Math.min(3, counter + 1); else counter = Math.max(0, counter - 1);
NextCounter(counter, taken) ==
    IF taken THEN Min(3, counter + 1) ELSE Max(0, counter - 1)

\* if (branchStrategy === "2bit") { ... setSaturatingTable(t => ({...t, [current.id]: counter})); }
UpdatedSaturatingTable(strategy, table, current, taken) ==
    IF strategy = "2bit"
    THEN Put(table, current.id, NextCounter(Lookup(table, current.id, 1), taken))
    ELSE table

\* UpdatedBranchHistory recording the outcome under every strategy
UpdatedBranchHistory_AnyStrategy(strategy, hist, current, taken) ==
    Put(hist, current.id, taken)

\* if (branchStrategy === "1bit") { setBranchHistory(h => ({...h, [current.id]: taken})); }
UpdatedBranchHistory(strategy, hist, current, taken) ==
    IF strategy = "1bit" THEN Put(hist, current.id, taken) ELSE hist

\* MispredictionFlush with setStalls(2) for setStalls(s => s + 2)
MispredictionFlush_SetsStalls(predictedTaken, taken) ==
    LET explanation == MispredictionExplanation(cycle, predictedTaken, taken)
    IN /\ explanations' = Append(explanations, explanation)
       /\ execLog' = Append(execLog, LogEntry(cycle, explanation))
       /\ stalls' = 2
       /\ flushing' = 2
       /\ UNCHANGED <<cycle, wbResults>>

\* MispredictionFlush with setFlushing(1)
MispredictionFlush_OneFlush(predictedTaken, taken) ==
    LET explanation == MispredictionExplanation(cycle, predictedTaken, taken)
    IN /\ explanations' = Append(explanations, explanation)
       /\ execLog' = Append(execLog, LogEntry(cycle, explanation))
       /\ stalls' = stalls + 2
       /\ flushing' = 1
       /\ UNCHANGED <<cycle, wbResults>>

\* if (predictionEnabled && taken !== predictedTaken) { ... return; }
MispredictionFlush(predictedTaken, taken) ==
    LET explanation == MispredictionExplanation(cycle, predictedTaken, taken)
    IN /\ explanations' = Append(explanations, explanation)
       /\ execLog' = Append(execLog, LogEntry(cycle, explanation))
       /\ stalls' = stalls + 2
       /\ flushing' = 2
       /\ UNCHANGED <<cycle, wbResults>>

\* else { explanation = `Control hazard resolved by stalling ...`; ... return; }
ResolvedByStalling ==
    LET explanation == ResolvedExplanation(cycle)
    IN /\ stalls' = stalls + 2
       /\ flushing' = 2
       /\ explanations' = Append(explanations, explanation)
       /\ execLog' = Append(execLog, LogEntry(cycle, explanation))
       /\ UNCHANGED <<cycle, wbResults>>

\* NormalAdvance with the branch's explanation recorded where it is built and
\* again at the end of the handler
NormalAdvance_RecordsTwice(explanation) ==
    LET shown == IF explanation = <<>> THEN NoStallExplanation(cycle)
                 ELSE explanation[1]
    IN /\ wbResults' = WbAppend(wbResults, cycle, instructions, registers, memory)
       /\ execLog' = Append(execLog, LogEntry(cycle, shown))
       /\ cycle' = cycle + 1
       /\ explanations' = IF explanation = <<>> THEN Append(explanations, shown)
                          ELSE Append(Append(explanations, shown), shown)
       /\ UNCHANGED <<stalls, flushing>>

\* NormalAdvance with setCycle(c => c + 2)
NormalAdvance_SkipsCycle(explanation) ==
    LET shown == IF explanation = <<>> THEN NoStallExplanation(cycle)
                 ELSE explanation[1]
    IN /\ wbResults' = WbAppend(wbResults, cycle, instructions, registers, memory)
       /\ execLog' = Append(execLog, LogEntry(cycle, shown))
       /\ cycle' = cycle + 2
       /\ explanations' = Append(explanations, shown)
       /\ UNCHANGED <<stalls, flushing>>

\* the tail of the handler, from "WB stage: show result"; explanation is what the
\* branch above left in the local variable ("" when it left none)
NormalAdvance(explanation) ==
    LET shown == IF explanation = <<>> THEN NoStallExplanation(cycle)
                 ELSE explanation[1]
    IN /\ wbResults' = WbAppend(wbResults, cycle, instructions, registers, memory)
       /\ execLog' = Append(execLog, LogEntry(cycle, shown))
       /\ cycle' = cycle + 1
       /\ explanations' = Append(explanations, shown)
       /\ UNCHANGED <<stalls, flushing>>

\* ControlHazardStep with the "prediction correct" explanation lost before the
\* tail of the handler
ControlHazardStep_DropsExplanation(current) ==
    LET taken == isBranchTaken(current, registers)
        predictedTaken ==
            predictBranch(current, branchHistory, branchStrategy, saturatingTable)
    IN /\ saturatingTable' =
            UpdatedSaturatingTable(branchStrategy, saturatingTable, current, taken)
       /\ branchHistory' =
            UpdatedBranchHistory(branchStrategy, branchHistory, current, taken)
       /\ IF predictionEnabled /\ taken # predictedTaken
          THEN MispredictionFlush(predictedTaken, taken)
          ELSE IF predictionEnabled
          THEN NormalAdvance(<<>>)
          ELSE ResolvedByStalling

\* if (detectControlHazard(current)) { ... }
ControlHazardStep(current) ==
    LET taken == isBranchTaken(current, registers)
        predictedTaken ==
            predictBranch(current, branchHistory, branchStrategy, saturatingTable)
    IN /\ saturatingTable' =
            UpdatedSaturatingTable(branchStrategy, saturatingTable, current, taken)
       /\ branchHistory' =
            UpdatedBranchHistory(branchStrategy, branchHistory, current, taken)
       /\ IF predictionEnabled /\ taken # predictedTaken
          THEN MispredictionFlush(predictedTaken, taken)
          ELSE IF predictionEnabled
          THEN NormalAdvance(<<CorrectExplanation(cycle)>>)
          ELSE ResolvedByStalling

\* currentIdx > 0 && currentIdx < instructions.length
InHazardWindow == cycle > 0 /\ cycle < Len(instructions)

\* instructions[currentIdx] and instructions[currentIdx - 1]
CurrentInst == instructions[cycle + 1]
PreviousInst == instructions[cycle]

\* handleNextCycle with the control-hazard check outside the currentIdx > 0 guard
handleNextCycle_EvaluatesAtZero ==
    /\ (Len(execLog) < MaxLog \/ flushing > 0)
    /\ AdvanceFrame
    /\ IF flushing > 0
       THEN DrainStep
       ELSE IF InHazardWindow /\ ~forwarding
               /\ detectRawHazard(PreviousInst, CurrentInst)
       THEN RawStallStep(PreviousInst, CurrentInst)
       ELSE IF cycle < Len(instructions) /\ detectControlHazard(CurrentInst)
       THEN ControlHazardStep(CurrentInst)
       ELSE /\ NormalAdvance(<<>>)
            /\ UNCHANGED <<branchHistory, saturatingTable>>

\* handleNextCycle stalling once per hazard: a call right after a stall goes on
handleNextCycle_StallsOnce ==
    /\ (Len(execLog) < MaxLog \/ flushing > 0)
    /\ AdvanceFrame
    /\ IF flushing > 0
       THEN DrainStep
       ELSE IF InHazardWindow /\ ~forwarding
               /\ detectRawHazard(PreviousInst, CurrentInst)
               /\ ~(Len(explanations) > 0 /\ Last(explanations).kind = "Stalling")
       THEN RawStallStep(PreviousInst, CurrentInst)
       ELSE IF InHazardWindow /\ detectControlHazard(CurrentInst)
       THEN ControlHazardStep(CurrentInst)
       ELSE /\ NormalAdvance(<<>>)
            /\ UNCHANGED <<branchHistory, saturatingTable>>

\* the "Next Cycle" button; the first conjunct is the bound of the model
handleNextCycle ==
    /\ (Len(execLog) < MaxLog \/ flushing > 0)
    /\ AdvanceFrame
    /\ IF flushing > 0
       THEN DrainStep
       ELSE IF InHazardWindow /\ ~forwarding
               /\ detectRawHazard(PreviousInst, CurrentInst)
       THEN RawStallStep(PreviousInst, CurrentInst)
       ELSE IF InHazardWindow /\ detectControlHazard(CurrentInst)
       THEN ControlHazardStep(CurrentInst)
       ELSE /\ NormalAdvance(<<>>)
            /\ UNCHANGED <<branchHistory, saturatingTable>>

(* ------------------------------ step-back ------------------------------ *)

\* Snapshot without the flush counter
Snapshot_DropsFlushing ==
    [cycle |-> cycle, registers |-> registers, memory |-> memory,
     instructions |-> instructions, forwarding |-> forwarding,
     explanations |-> explanations, stalls |-> stalls,
     branchHistory |-> branchHistory, predictionEnabled |-> predictionEnabled,
     flushing |-> 0]

\* the object saveHistory pushes
Snapshot ==
    [cycle |-> cycle, registers |-> registers, memory |-> memory,
     instructions |-> instructions, forwarding |-> forwarding,
     explanations |-> explanations, stalls |-> stalls,
     branchHistory |-> branchHistory, predictionEnabled |-> predictionEnabled,
     flushing |-> flushing]

\* setHistory(h => [...h, {...}]); the first conjunct is the bound of the model
saveHistory ==
    /\ Len(history) < MaxHist
    /\ history' = Append(history, Snapshot)
    /\ UNCHANGED <<cycle, registers, memory, instructions, forwarding, explanations,
                   stalls, branchHistory, predictionEnabled, flushing,
                   editInstructions, execLog, branchStrategy, wbResults,
                   saturatingTable>>

\* every piece of state, as one record
LiveState ==
    [cycle |-> cycle, registers |-> registers, memory |-> memory,
     instructions |-> instructions, forwarding |-> forwarding,
     explanations |-> explanations, stalls |-> stalls,
     branchHistory |-> branchHistory, predictionEnabled |-> predictionEnabled,
     flushing |-> flushing, history |-> history,
     editInstructions |-> editInstructions, execLog |-> execLog,
     branchStrategy |-> branchStrategy, wbResults |-> wbResults,
     saturatingTable |-> saturatingTable]

\* the state handleStepBack leaves: if (history.length === 0) return; else the
\* ten setX(prev.x) calls and setHistory(h => h.slice(0, h.length - 1))
RestoredState ==
    IF Len(history) = 0
    THEN LiveState
    ELSE LET prev == history[Len(history)]
         IN [LiveState EXCEPT
               !.cycle = prev.cycle,
               !.registers = prev.registers,
               !.memory = prev.memory,
               !.instructions = prev.instructions,
               !.forwarding = prev.forwarding,
               !.explanations = prev.explanations,
               !.stalls = prev.stalls,
               !.branchHistory = prev.branchHistory,
               !.predictionEnabled = prev.predictionEnabled,
               !.flushing = prev.flushing,
               !.history = SubSeq(history, 1, Len(history) - 1)]

\* the "Step Back" button
handleStepBack ==
    /\ cycle' = RestoredState.cycle
    /\ registers' = RestoredState.registers
    /\ memory' = RestoredState.memory
    /\ instructions' = RestoredState.instructions
    /\ forwarding' = RestoredState.forwarding
    /\ explanations' = RestoredState.explanations
    /\ stalls' = RestoredState.stalls
    /\ branchHistory' = RestoredState.branchHistory
    /\ predictionEnabled' = RestoredState.predictionEnabled
    /\ flushing' = RestoredState.flushing
    /\ history' = RestoredState.history
    /\ editInstructions' = RestoredState.editInstructions
    /\ execLog' = RestoredState.execLog
    /\ branchStrategy' = RestoredState.branchStrategy
    /\ wbResults' = RestoredState.wbResults
    /\ saturatingTable' = RestoredState.saturatingTable

(* ------------------------- the other controls -------------------------- *)

\* the editor's "Apply" button
handleApplyInstructions ==
    /\ instructions' = editInstructions
    /\ cycle' = 0
    /\ registers' = defaultRegisters
    /\ memory' = defaultMemory
    /\ explanations' = <<>>
    /\ stalls' = 0
    /\ branchHistory' = EmptyMap
    /\ predictionEnabled' = TRUE
    /\ flushing' = 0
    /\ history' = <<>>
    /\ UNCHANGED <<forwarding, editInstructions, execLog, branchStrategy, wbResults,
                   saturatingTable>>

(* ------------------------- the instruction editor ---------------------- *)

\* What the authoring form (instInput) holds when Add or Update is pressed:
\* the id field of the form is not used by either handler.
FormInputs == {IInst(0, TextLwu, 7, 1, 0)}

\* values Date.now() returns
ClockValues == {1001}

\* the listed instructions whose Delete button is pressed
DeleteIds == {2}

\* selectedInst when Update is pressed: null without a prior Edit (0 here, which
\* is the id of no instruction: ids are 1..5 or Date.now() values), otherwise
\* the id handleEditInstruction stored
SelectedInsts == {0, 1001}

\* newInst = { id: Date.now(), text: instInput.text, type: ..., <the operand
\* fields of that type> }; setEditInstructions(insts => [...insts, newInst])
handleAddInstruction ==
    /\ Len(editInstructions) < MaxEditLen
    /\ \E instInput \in FormInputs, now \in ClockValues :
          editInstructions' =
              Append(editInstructions, [instInput EXCEPT !.id = now])
    /\ UNCHANGED <<cycle, registers, memory, instructions, forwarding, explanations,
                   stalls, branchHistory, predictionEnabled, flushing, history,
                   execLog, branchStrategy, wbResults, saturatingTable>>

\* setEditInstructions(insts => insts.filter(i => i.id !== id))
handleDeleteInstruction ==
    /\ \E id \in DeleteIds :
          editInstructions' =
              SelectSeq(editInstructions, LAMBDA i : i.id # id)
    /\ UNCHANGED <<cycle, registers, memory, instructions, forwarding, explanations,
                   stalls, branchHistory, predictionEnabled, flushing, history,
                   execLog, branchStrategy, wbResults, saturatingTable>>

\* setEditInstructions(insts => insts.map(i =>
\*     i.id === selectedInst ? {...instInput, id: selectedInst} : i))
UpdateInstruction(instInput, selectedInst) ==
    /\ editInstructions' =
          [k \in 1..Len(editInstructions) |->
              IF editInstructions[k].id = selectedInst
              THEN [instInput EXCEPT !.id = selectedInst]
              ELSE editInstructions[k]]
    /\ UNCHANGED <<cycle, registers, memory, instructions, forwarding, explanations,
                   stalls, branchHistory, predictionEnabled, flushing, history,
                   execLog, branchStrategy, wbResults, saturatingTable>>

handleUpdateInstruction ==
    \E instInput \in FormInputs, selectedInst \in SelectedInsts :
        UpdateInstruction(instInput, selectedInst)

\* what the form holds when the branch of the example is re-typed: a B-type
\* that is not a BEQ (never taken), or the BEQ again (taken, registers being 0)
BranchForms == {BInst(0, TextBne, 1, 2), BInst(0, TextBeq3, 4, 6)}
\* the instruction selected by Edit then: the BEQ of the example
BranchIds == {3}

\* handleUpdateInstruction on the selected branch, which keeps its id
handleUpdateBranch ==
    \E instInput \in BranchForms, selectedInst \in BranchIds :
        UpdateInstruction(instInput, selectedInst)

\* <Button onClick={() => setForwarding(!forwarding)}>
ToggleForwarding ==
    /\ forwarding' = ~forwarding
    /\ UNCHANGED <<cycle, registers, memory, instructions, explanations,
                   stalls, branchHistory, predictionEnabled, flushing, history,
                   editInstructions, execLog, branchStrategy, wbResults,
                   saturatingTable>>

\* <Button onClick={() => setPredictionEnabled(!predictionEnabled)}>
TogglePrediction ==
    /\ predictionEnabled' = ~predictionEnabled
    /\ UNCHANGED <<cycle, registers, memory, instructions, forwarding, explanations,
                   stalls, branchHistory, flushing, history,
                   editInstructions, execLog, branchStrategy, wbResults,
                   saturatingTable>>

\* <select ... onChange={e => setBranchStrategy(e.target.value)}>
SelectBranchStrategy ==
    /\ \E k \in 1..Len(branchStrategies) : branchStrategy' = branchStrategies[k]
    /\ UNCHANGED <<cycle, registers, memory, instructions, forwarding, explanations,
                   stalls, branchHistory, predictionEnabled, flushing, history,
                   editInstructions, execLog, wbResults,
                   saturatingTable>>

\* the "Reset Simulation" button
ResetSimulation ==
    /\ cycle' = 0
    /\ registers' = defaultRegisters
    /\ memory' = defaultMemory
    /\ instructions' = instructionsExampleTyped
    /\ forwarding' = TRUE
    /\ explanations' = <<>>
    /\ stalls' = 0
    /\ branchHistory' = EmptyMap
    /\ predictionEnabled' = TRUE
    /\ flushing' = 0
    /\ history' = <<>>
    /\ execLog' = <<>>
    /\ wbResults' = <<>>
    /\ saturatingTable' = EmptyMap
    /\ UNCHANGED <<editInstructions, branchStrategy>>

(* -------------------------- hazard colouring ---------------------------- *)

\* getHazardType(stageIdx, instIdx) of the pipeline grid, for the current cycle
\* and the active sequence; both indexes are 0-based as in the source.
\* if (!instText) return "NONE" is taken for a missing entry and for an empty text.
getHazardType(stageIdx, instIdx) ==
    LET insts == getPipelineState(cycle, instructions)[stageIdx + 1]
    IN IF instIdx >= Len(insts) THEN "NONE"
       ELSE IF Len(insts[instIdx + 1]) = 0 THEN "NONE"
       ELSE LET instText == insts[instIdx + 1]
                prevInsts == IF stageIdx > 0
                             THEN getPipelineState(cycle, instructions)[stageIdx]
                             ELSE <<>>
                currObj == FindByText(instructions, instText)
            IN IF \E k \in 1..Len(prevInsts) :
                      detectRawHazard(FindByText(instructions, prevInsts[k]), currObj)
               THEN "RAW"
               ELSE IF detectControlHazard(currObj) THEN "CONTROL"
               ELSE IF Len(insts) > 1 THEN "STRUCTURAL"
               ELSE "NONE"

(* --------------------------- specifications ---------------------------- *)

\* the program as it is wired: no control calls saveHistory
Next ==
    \/ handleNextCycle
    \/ handleStepBack
    \/ handleAddInstruction
    \/ handleDeleteInstruction
    \/ handleUpdateInstruction
    \/ handleApplyInstructions
    \/ ToggleForwarding
    \/ TogglePrediction
    \/ SelectBranchStrategy
    \/ ResetSimulation

Spec == Init /\ [][Next]_vars

\* The snapshot routine exercised as well: saveHistory is defined by the source
\* and called by none of its controls, so it is an operation of its own here.
\* The run starts from the initial state, with the default or the 2-bit strategy
\* selected, and keeps to the controls whose state a snapshot holds.
InitHist ==
    /\ cycle = 0
    /\ registers = defaultRegisters
    /\ memory = defaultMemory
    /\ instructions = instructionsExampleTyped
    /\ forwarding = TRUE
    /\ explanations = <<>>
    /\ stalls = 0
    /\ branchHistory = EmptyMap
    /\ predictionEnabled = TRUE
    /\ flushing = 0
    /\ history = <<>>
    /\ editInstructions = instructionsExampleTyped
    /\ execLog = <<>>
    /\ branchStrategy \in {"always-not-taken", "2bit"}
    /\ wbResults = <<>>
    /\ saturatingTable = EmptyMap

NextHist ==
    \/ handleNextCycle
    \/ saveHistory
    \/ handleStepBack
    \/ ToggleForwarding

SpecHist == InitHist /\ [][NextHist]_vars

\* the branch of the example re-typed between runs: the editor deletes the
\* instruction before it and switches it between BEQ and BNE under its id, each
\* apply starts a run that evaluates it again, and the counter of that id, which
\* apply keeps, moves both ways.  Forwarding stays enabled.
NextRetype ==
    \/ handleNextCycle
    \/ handleDeleteInstruction
    \/ handleUpdateBranch
    \/ handleApplyInstructions
    \/ TogglePrediction
    \/ SelectBranchStrategy
    \/ ResetSimulation

SpecRetype == Init /\ [][NextRetype]_vars

\* repeated "Next Cycle" presses with forwarding left enabled, on a sequence that
\* was just applied; the prediction controls stay in use
InitLive ==
    /\ cycle = 0
    /\ registers = defaultRegisters
    /\ memory = defaultMemory
    /\ instructions \in PendingSequences
    /\ forwarding = TRUE
    /\ explanations = <<>>
    /\ stalls = 0
    /\ branchHistory = EmptyMap
    /\ predictionEnabled \in BOOLEAN
    /\ flushing = 0
    /\ history = <<>>
    /\ editInstructions = instructions
    /\ execLog = <<>>
    /\ branchStrategy \in {branchStrategies[i] : i \in 1..Len(branchStrategies)}
    /\ wbResults = <<>>
    /\ saturatingTable = EmptyMap

NextLive ==
    \/ handleNextCycle
    \/ TogglePrediction
    \/ SelectBranchStrategy

SpecLive == InitLive /\ [][NextLive]_vars /\ WF_vars(handleNextCycle)

\* one run: the state right after construction, or right after a first apply of
\* an edited sequence, and then every control but apply and reset
RunSequences ==
    {instructionsExampleTyped, LateBranches, LongMnemonics, MispredictionLabel,
     LineSeparatorLabel, DefaultForms} \cup PendingSequences

InitRun ==
    /\ cycle = 0
    /\ registers = defaultRegisters
    /\ memory = defaultMemory
    /\ instructions \in RunSequences
    /\ forwarding = TRUE
    /\ explanations = <<>>
    /\ stalls = 0
    /\ branchHistory = EmptyMap
    /\ predictionEnabled = TRUE
    /\ flushing = 0
    /\ history = <<>>
    /\ editInstructions = instructions
    /\ execLog = <<>>
    /\ branchStrategy = branchStrategies[1]
    /\ wbResults = <<>>
    /\ saturatingTable = EmptyMap

NextRun ==
    \/ handleNextCycle
    \/ handleStepBack
    \/ ToggleForwarding
    \/ TogglePrediction
    \/ SelectBranchStrategy

SpecRun == InitRun /\ [][NextRun]_vars

(* ------------------------------ claims --------------------------------- *)

\* a step of the "Next Cycle" handler
AdvanceCall == handleNextCycle

\* the kinds of the last n explanations, oldest first (<<>> when there are fewer)
LastKinds(n) ==
    IF Len(explanations) < n THEN <<>>
    ELSE [i \in 1..n |-> explanations[Len(explanations) - n + i].kind]

\* the sequence got from s by appending exactly one element
GrowsByOne(s, t) == Len(t) = Len(s) + 1 /\ SubSeq(t, 1, Len(s)) = s

\* no B-type instruction and no RAW hazard between neighbours
NoHazards(insts) ==
    /\ \A k \in 1..Len(insts) : ~detectControlHazard(insts[k])
    /\ \A k \in 1..(Len(insts) - 1) : ~detectRawHazard(insts[k], insts[k + 1])

SomeStageOccupied(c, insts) ==
    \E si \in 1..Len(pipelineStages) : getPipelineState(c, insts)[si] # <<>>

\* C1: with a hazard-free active sequence of N instructions, every advance call
\* since the run began added 1 to cycle (cycle equals the number of calls, one
\* explanation each), stalls is 0 and no flush is pending; at cycle N+3 the last
\* instruction is alone in write-back, the pipeline holds an instruction at every
\* cycle below N+4, and from cycle N+4 on no stage is occupied.
C1_NoHazardDrain ==
    NoHazards(instructions) =>
        LET N == Len(instructions)
            ps == getPipelineState(cycle, instructions)
        IN /\ cycle = Len(explanations)
           /\ stalls = 0
           /\ flushing = 0
           /\ (N >= 1 /\ cycle = N + 3) => ps[Len(pipelineStages)] = <<instructions[N].text>>
           /\ (N >= 1 /\ cycle < N + 4) => SomeStageOccupied(cycle, instructions)
           /\ cycle >= N + 4 => ~SomeStageOccupied(cycle, instructions)

C1_Witness ==
    /\ NoHazards(instructions)
    /\ Len(instructions) = 2
    /\ forwarding
    /\ Len(explanations) = Len(instructions) + 4
    /\ cycle = Len(instructions) + 4

\* the precondition of C2: an evaluating call on a mispredicted branch
MispredictPre ==
    /\ flushing = 0
    /\ predictionEnabled
    /\ InHazardWindow
    /\ detectControlHazard(CurrentInst)
    /\ predictBranch(CurrentInst, branchHistory, branchStrategy, saturatingTable)
         # isBranchTaken(CurrentInst, registers)

\* C2: an advance call on a mispredicted branch adds 2 to stalls, sets flushing to
\* 2, keeps cycle and records the misprediction; the two advance calls after it
\* are drain steps (a "Flushing pipeline" explanation, cycle + 1, flushing - 1);
\* then flushing is 0 and the next advance call is an evaluating step again (it
\* writes an execution-log entry and no "Flushing pipeline" explanation).
C2_MispredictionFlush ==
    [][AdvanceCall =>
        /\ MispredictPre =>
              /\ stalls' = stalls + 2
              /\ flushing' = 2
              /\ cycle' = cycle
              /\ GrowsByOne(explanations, explanations')
              /\ Last(explanations').kind = "Misprediction"
        /\ LastKinds(1) = <<"Misprediction">> =>
              /\ flushing = 2
              /\ cycle' = cycle + 1
              /\ flushing' = 1
              /\ GrowsByOne(explanations, explanations')
              /\ Last(explanations').kind = "Flushing pipeline"
        /\ LastKinds(2) = <<"Misprediction", "Flushing pipeline">> =>
              /\ flushing = 1
              /\ cycle' = cycle + 1
              /\ flushing' = 0
              /\ GrowsByOne(explanations, explanations')
              /\ Last(explanations').kind = "Flushing pipeline"
        /\ LastKinds(3) = <<"Misprediction", "Flushing pipeline", "Flushing pipeline">> =>
              /\ flushing = 0
              /\ GrowsByOne(execLog, execLog')
              /\ Last(explanations').kind # "Flushing pipeline"
    ]_vars

C2_Witness ==
    /\ Len(explanations) >= 4
    /\ LET n == Len(explanations)
       IN /\ explanations[n - 3].kind = "Misprediction"
          /\ explanations[n - 2].kind = "Flushing pipeline"
          /\ explanations[n - 1].kind = "Flushing pipeline"
          /\ explanations[n].kind = "executed without stall"
    /\ stalls = 2
    /\ cycle = 5

\* C3: an evaluating advance call with forwarding off on a RAW-hazardous pair
\* records one stall explanation, adds 1 to stalls and leaves cycle, flushing,
\* both predictor tables and the write-back log alone; in the example sequence
\* this is the call at cycle 1, which takes stalls from 0 to 1.
C3_RawStall ==
    [][AdvanceCall =>
        /\ (/\ flushing = 0
            /\ ~forwarding
            /\ InHazardWindow
            /\ detectRawHazard(PreviousInst, CurrentInst)) =>
              /\ GrowsByOne(explanations, explanations')
              /\ Last(explanations').kind = "Stalling"
              /\ stalls' = stalls + 1
              /\ UNCHANGED <<cycle, flushing, branchHistory, saturatingTable, wbResults>>
        /\ (/\ instructions = instructionsExampleTyped
            /\ cycle = 1
            /\ flushing = 0
            /\ ~forwarding
            /\ stalls = 0) =>
              /\ stalls' = 1
              /\ cycle' = 1
              /\ Last(explanations').kind = "Stalling"
    ]_vars

C3_Witness ==
    /\ instructions = instructionsExampleTyped
    /\ cycle = 1
    /\ stalls = 1
    /\ ~forwarding
    /\ LastKinds(1) = <<"Stalling">>

\* no control hazard of this run was evaluated with prediction enabled
PredictionOffSoFar ==
    \A i \in 1..Len(explanations) :
        explanations[i].kind \notin {"Misprediction", "Branch prediction correct"}

\* C4: with prediction disabled for the whole run, the pipeline steps past a
\* B-type instruction, at whatever position, only by paying its penalty: the call
\* that moves cycle off the position of a B-type instruction is the first drain
\* step of the flush that instruction triggered (2 stalls charged, 2 flush cycles
\* pending).
C4_EveryBranchPenalised ==
    [][(/\ AdvanceCall
        /\ ~predictionEnabled
        /\ PredictionOffSoFar
        /\ cycle < Len(instructions)
        /\ detectControlHazard(instructions[cycle + 1])
        /\ cycle' = cycle + 1) =>
            /\ flushing = 2
            /\ LastKinds(1) = <<"Control hazard resolved">>
            /\ Last(explanations).cycle = cycle
            /\ stalls >= 2
    ]_vars

\* C5: no advance call lowers stalls.
C5_StallsMonotone == [][AdvanceCall => stalls' >= stalls]_vars

C5_Witness ==
    /\ stalls = 3
    /\ \E i \in 1..Len(explanations) : explanations[i].kind = "Stalling"
    /\ LastKinds(1) = <<"Misprediction">>

CountersInRange(table) == \A id \in DOMAIN table : table[id] \in 0..3

\* an evaluating call that reaches the control-hazard branch
EvaluatesControlHazard ==
    /\ flushing = 0
    /\ InHazardWindow
    /\ ~(~forwarding /\ detectRawHazard(PreviousInst, CurrentInst))
    /\ detectControlHazard(CurrentInst)

\* C6: every stored 2-bit counter is in 0..3; an instruction without a stored
\* counter is predicted not taken under the 2-bit strategy (its counter reads 1);
\* a control-hazard evaluation under the 2-bit strategy stores min(3, old + 1) for
\* a taken branch and max(0, old - 1) for a branch not taken, for that id alone.
C6_SaturatingCounter ==
    [][/\ CountersInRange(saturatingTable)
       /\ CountersInRange(saturatingTable')
       /\ \A k \in 1..Len(instructions) :
             instructions[k].id \notin DOMAIN saturatingTable =>
                 ~predictBranch(instructions[k], branchHistory, "2bit", saturatingTable)
       /\ (AdvanceCall /\ EvaluatesControlHazard /\ branchStrategy = "2bit") =>
             LET id == CurrentInst.id
                 old == IF id \in DOMAIN saturatingTable THEN saturatingTable[id] ELSE 1
                 taken == isBranchTaken(CurrentInst, registers)
             IN /\ DOMAIN saturatingTable' = DOMAIN saturatingTable \cup {id}
                /\ \A other \in DOMAIN saturatingTable \ {id} :
                      saturatingTable'[other] = saturatingTable[other]
                /\ taken => /\ saturatingTable'[id] = (IF old = 3 THEN 3 ELSE old + 1)
                            /\ saturatingTable'[id] >= old
                /\ ~taken => /\ saturatingTable'[id] = (IF old = 0 THEN 0 ELSE old - 1)
                             /\ saturatingTable'[id] <= old
    ]_vars

\* the branch of the example, re-typed as a BNE under its id 3, was evaluated
\* not taken in three runs, the last one under 2-bit: its counter is held at 0
C6_Witness ==
    /\ \E k \in 1..Len(instructions) :
          /\ instructions[k].id = 3
          /\ detectControlHazard(instructions[k])
          /\ ~isBranchTaken(instructions[k], registers)
    /\ 3 \in DOMAIN saturatingTable
    /\ saturatingTable[3] = 0
    /\ LastKinds(1) = <<"Branch prediction correct">>
    /\ branchStrategy = "2bit"
    /\ Cardinality({i \in 1..Len(execLog) :
            execLog[i].text.kind = "Branch prediction correct"}) = 3

\* C7: an advance call with a flush pending adds 1 to cycle, takes 1 from
\* flushing, appends one explanation and leaves stalls, both predictor tables,
\* the execution log and the write-back log alone.
C7_DrainFrame ==
    [][(AdvanceCall /\ flushing > 0) =>
            /\ cycle' = cycle + 1
            /\ flushing' = flushing - 1
            /\ GrowsByOne(explanations, explanations')
            /\ UNCHANGED <<stalls, branchHistory, saturatingTable, execLog, wbResults>>
    ]_vars

C7_Witness ==
    /\ flushing = 1
    /\ LastKinds(2) = <<"Control hazard resolved", "Flushing pipeline">>
    /\ ~forwarding

\* C8: an advance call appends at most one explanation and at most one
\* execution-log entry, and changes cycle by 0 or by +1.
C8_OneStepPerCall ==
    [][AdvanceCall =>
            /\ (explanations' = explanations \/ GrowsByOne(explanations, explanations'))
            /\ (execLog' = execLog \/ GrowsByOne(execLog, execLog'))
            /\ cycle' - cycle \in {0, 1}
    ]_vars

C8_Witness ==
    /\ LastKinds(1) = <<"Branch prediction correct">>
    /\ Len(explanations) = 3
    /\ Len(execLog) = 3
    /\ cycle = 3

\* C9: an apply adopts the pending sequence and resets cycle, stalls, flushing,
\* the explanations, both predictor tables, registers, memory and the history.
C9_ApplyResetsAll ==
    [][handleApplyInstructions =>
            /\ instructions' = editInstructions
            /\ cycle' = 0
            /\ stalls' = 0
            /\ flushing' = 0
            /\ explanations' = <<>>
            /\ branchHistory' = EmptyMap
            /\ saturatingTable' = EmptyMap
            /\ registers' = defaultRegisters
            /\ memory' = defaultMemory
            /\ history' = <<>>
    ]_vars

\* C10: a snapshot followed at once by a restore gives back the state the
\* snapshot was taken in, history included.
C10_SnapshotRestoreRoundTrip == [][saveHistory => RestoredState' = LiveState]_vars

C10_Witness ==
    /\ Len(history) = 1
    /\ history[1] = Snapshot
    /\ flushing = 1
    /\ stalls = 3

\* C11: restore after a snapshot and advance calls gives back the state the
\* snapshot was taken in, in every variable (execution log, write-back log and
\* 2-bit counters included), with the snapshot popped from the history. Stated
\* for one advance call out of a state whose latest snapshot is of that state.
C11_RestoreUndoesAdvance ==
    [][(/\ AdvanceCall
        /\ Len(history) > 0
        /\ Last(history) = Snapshot) =>
            RestoredState' =
                [LiveState EXCEPT !.history = SubSeq(history, 1, Len(history) - 1)]
    ]_vars

\* an array of n cells indexed from 0, all holding 0
AllZero(array, n) ==
    /\ DOMAIN array = 0..(n - 1)
    /\ \A i \in DOMAIN array : array[i] = 0

\* C12: the 32 registers and the 64 memory cells are all zero in every reachable
\* state, whatever steps the advance calls took, and every write-back record
\* carries an all-zero copy of both.
C12_RegistersMemoryZero ==
    /\ AllZero(registers, NumRegisters)
    /\ AllZero(memory, NumMemory)
    /\ \A i \in 1..Len(wbResults) :
          /\ AllZero(wbResults[i].registers, NumRegisters)
          /\ AllZero(wbResults[i].memory, NumMemory)

\* a write-back record written after a stall, a misprediction and its drain
C12_Witness ==
    /\ Len(wbResults) >= 1
    /\ stalls = 3
    /\ cycle = 5
    /\ \E i \in 1..Len(explanations) : explanations[i].kind = "Flushing pipeline"

\* C13: for the active and the pending sequence and every cycle c from 0 to past
\* the drain, stage s (0-based) of getPipelineState(c, insts) holds the text of
\* the instruction at position c - s when that position exists, and nothing
\* else: position idx is shown in stage c - idx exactly when 0 <= c - idx < 5.
C13_Occupancy ==
    \A insts \in {instructions, editInstructions} :
      \A c \in 0..(cycle + Len(insts) + Len(pipelineStages)) :
        LET ps == getPipelineState(c, insts)
        IN /\ DOMAIN ps = 1..Len(pipelineStages)
           /\ \A s \in 0..(Len(pipelineStages) - 1) :
                 ps[s + 1] = IF c - s \in 0..(Len(insts) - 1)
                             THEN <<insts[c - s + 1].text>>
                             ELSE <<>>

\* the example sequence at cycle 4: its five instructions fill the five stages
C13_Witness ==
    /\ instructions = instructionsExampleTyped
    /\ cycle = 4
    /\ \A s \in 0..4 :
          getPipelineState(cycle, instructions)[s + 1] = <<instructions[5 - s].text>>

\* C14: in every state the program reaches by its own operations the history is
\* empty, and the state a step-back would leave is the live state.
C14_HistoryEmpty ==
    /\ history = <<>>
    /\ RestoredState = LiveState

\* in the middle of a flush, after a stall and a misprediction
C14_Witness ==
    /\ history = <<>>
    /\ flushing = 1
    /\ stalls = 3
    /\ cycle = 3

\* the kinds of explanation a control-hazard evaluation records
ControlKinds ==
    {"Misprediction", "Branch prediction correct", "Control hazard resolved"}

\* C15: a non-draining advance call at cycle 0 or at a cycle >= the length of the
\* sequence is a normal advance (cycle + 1, one "executed without stall"
\* explanation, stalls, flushing and both predictor tables unchanged) whatever
\* the instructions and the flags; at a cycle in between, the call stalls exactly
\* when forwarding is off and the pair (instructions[cycle-1], instructions[cycle])
\* has a RAW hazard, and otherwise evaluates a control hazard exactly when
\* instructions[cycle] is B-type.
C15_HazardWindow ==
    [][(AdvanceCall /\ flushing = 0) =>
        /\ (cycle = 0 \/ cycle >= Len(instructions)) =>
              /\ cycle' = cycle + 1
              /\ GrowsByOne(explanations, explanations')
              /\ Last(explanations').kind = "executed without stall"
              /\ UNCHANGED <<stalls, flushing, branchHistory, saturatingTable>>
        /\ (cycle > 0 /\ cycle < Len(instructions)) =>
              LET prior == instructions[cycle]
                  current == instructions[cycle + 1]
                  stallsHere == ~forwarding /\ detectRawHazard(prior, current)
              IN /\ Last(explanations').kind = "Stalling" <=> stallsHere
                 /\ Last(explanations').kind \in ControlKinds
                        <=> (~stallsHere /\ current.type = "B")
    ]_vars

\* the call at cycle 0 on a sequence that starts with a taken branch, prediction
\* enabled and predicting not taken
C15_Witness ==
    /\ instructions = BranchFirst
    /\ predictionEnabled
    /\ branchStrategy = "always-not-taken"
    /\ ~forwarding
    /\ cycle = 1
    /\ LastKinds(1) = <<"executed without stall">>
    /\ stalls = 0

\* C16: an advance call that evaluates a control hazard with prediction enabled
\* and the prediction equal to the outcome adds 1 to cycle, leaves stalls alone,
\* keeps flushing at 0 and appends one "Branch prediction correct" explanation
\* and one execution-log entry, both for the cycle of the call.
C16_CorrectPrediction ==
    [][(/\ AdvanceCall
        /\ EvaluatesControlHazard
        /\ predictionEnabled
        /\ predictBranch(CurrentInst, branchHistory, branchStrategy, saturatingTable)
             = isBranchTaken(CurrentInst, registers)) =>
            /\ cycle' = cycle + 1
            /\ stalls' = stalls
            /\ flushing = 0
            /\ flushing' = 0
            /\ GrowsByOne(explanations, explanations')
            /\ Last(explanations').kind = "Branch prediction correct"
            /\ Last(explanations').cycle = cycle
            /\ GrowsByOne(execLog, execLog')
            /\ Last(execLog') = [cycle |-> cycle, text |-> Last(explanations')]
    ]_vars

\* the taken BEQ of the example sequence under always-taken
C16_Witness ==
    /\ instructions = instructionsExampleTyped
    /\ branchStrategy = "always-taken"
    /\ predictionEnabled
    /\ cycle = 3
    /\ stalls = 0
    /\ flushing = 0
    /\ LastKinds(1) = <<"Branch prediction correct">>

\* map t is map s with the entry of key id added or replaced, nothing else touched
OnlyEntryChanged(s, t, id) ==
    /\ DOMAIN t = DOMAIN s \cup {id}
    /\ \A other \in DOMAIN s \ {id} : t[other] = s[other]

\* C17: an advance call that does not evaluate a control hazard (drain, stall,
\* normal advance) leaves both predictor tables alone; one that does leaves both
\* alone under always-taken and always-not-taken, under 1-bit sets the entry of
\* the evaluated id in the 1-bit table to the actual outcome and touches nothing
\* else, under 2-bit changes only the counter of the evaluated id; this holds
\* with prediction enabled and with prediction disabled.
C17_PredictorFrame ==
    [][AdvanceCall =>
        /\ ~EvaluatesControlHazard => UNCHANGED <<branchHistory, saturatingTable>>
        /\ EvaluatesControlHazard =>
              LET id == CurrentInst.id
                  taken == isBranchTaken(CurrentInst, registers)
              IN /\ branchStrategy \in {"always-taken", "always-not-taken"} =>
                       UNCHANGED <<branchHistory, saturatingTable>>
                 /\ branchStrategy = "1bit" =>
                       /\ saturatingTable' = saturatingTable
                       /\ OnlyEntryChanged(branchHistory, branchHistory', id)
                       /\ branchHistory'[id] = taken
                 /\ branchStrategy = "2bit" =>
                       /\ branchHistory' = branchHistory
                       /\ OnlyEntryChanged(saturatingTable, saturatingTable', id)
                       /\ saturatingTable'[id] \in 0..3
    ]_vars

\* both tables written, the last write made with prediction disabled
C17_Witness ==
    /\ ~predictionEnabled
    /\ LastKinds(1) = <<"Control hazard resolved">>
    /\ branchStrategy = "1bit"
    /\ DOMAIN branchHistory # {}
    /\ DOMAIN saturatingTable # {}

\* C18: an advance call that is a normal advance (no flush pending, cycle + 1)
\* at cycle c appends one write-back record, with cycle field c and the text of
\* the instruction at position c - 4, when that position exists, and none when
\* it does not; an advance call that is a stall, a flush trigger (cycle kept) or
\* a drain step (flush pending) leaves the write-back log alone.
C18_WriteBackRecords ==
    [][AdvanceCall =>
        /\ (flushing = 0 /\ cycle' = cycle + 1) =>
              IF cycle - 4 \in 0..(Len(instructions) - 1)
              THEN /\ GrowsByOne(wbResults, wbResults')
                   /\ Last(wbResults').cycle = cycle
                   /\ Last(wbResults').inst = instructions[cycle - 4 + 1].text
              ELSE wbResults' = wbResults
        /\ (flushing > 0 \/ cycle' = cycle) => wbResults' = wbResults
    ]_vars

\* the second instruction of a pair written back at cycle 5
C18_Witness ==
    /\ Len(instructions) = 2
    /\ cycle = 6
    /\ Len(wbResults) >= 2
    /\ Last(wbResults).cycle = 5
    /\ Last(wbResults).inst = instructions[2].text
    /\ \A i, j \in 1..Len(instructions) :
          instructions[i].text = instructions[j].text => i = j

\* the instructions of the active and of the pending sequence
KnownInstructions ==
    {instructions[k] : k \in 1..Len(instructions)}
        \cup {editInstructions[k] : k \in 1..Len(editInstructions)}

\* C19: for every pair (prior, current) of instructions of the active or pending
\* sequence, detectRawHazard is true exactly when some register is both written
\* by prior (rd of an R-type, rt of an I-type LW, nothing else) and read by
\* current (rs and rt of an R-type, rt and base of an I-type, nothing for a
\* B-type); it is false when current is B-type and when prior is SW or B-type.
C19_DetectRaw ==
    \A prior \in KnownInstructions : \A current \in KnownInstructions :
        LET written(reg) ==
                \/ prior.type = "R" /\ reg = prior.rd
                \/ prior.type = "I" /\ StartsWith(prior.text, PrefixLW) /\ reg = prior.rt
            read(reg) ==
                \/ current.type = "R" /\ reg \in {current.rs, current.rt}
                \/ current.type = "I" /\ reg \in {current.rt, current.base}
        IN /\ detectRawHazard(prior, current)
                <=> \E reg \in 0..(NumRegisters - 1) : written(reg) /\ read(reg)
           /\ current.type = "B" => ~detectRawHazard(prior, current)
           /\ prior.type = "B" => ~detectRawHazard(prior, current)
           /\ (prior.type = "I" /\ StartsWith(prior.text, PrefixSW)) =>
                 ~detectRawHazard(prior, current)

\* the stall of the example sequence on its LW / SW pair at cycle 4
C19_Witness ==
    /\ instructions = instructionsExampleTyped
    /\ cycle = 4
    /\ ~forwarding
    /\ LastKinds(1) = <<"Stalling">>
    /\ detectRawHazard(instructions[4], instructions[5])
    /\ ~detectRawHazard(instructions[5], instructions[4])

\* C20: once an advance call has stalled on a RAW hazard, as long as forwarding
\* stays off and the sequence is not replaced (no apply, no reset), no step moves
\* cycle or adds a write-back record, and every advance call stalls again on the
\* same pair: it adds 1 to stalls and repeats the stall explanation.
C20_StallForever ==
    [][(/\ LastKinds(1) = <<"Stalling">>
        /\ ~forwarding
        /\ ~forwarding'
        /\ ~handleApplyInstructions
        /\ ~ResetSimulation) =>
            /\ Last(explanations).cycle = cycle
            /\ cycle' = cycle
            /\ wbResults' = wbResults
            /\ LastKinds(1)' = <<"Stalling">>
            /\ AdvanceCall =>
                  /\ stalls' = stalls + 1
                  /\ GrowsByOne(explanations, explanations')
                  /\ Last(explanations') = Last(explanations)
    ]_vars

\* three stalls in a row at cycle 1 of the example sequence
C20_Witness ==
    /\ instructions = instructionsExampleTyped
    /\ ~forwarding
    /\ cycle = 1
    /\ stalls = 3
    /\ LastKinds(3) = <<"Stalling", "Stalling", "Stalling">>
    /\ wbResults = <<>>

\* the explanations of the advance calls that start a flush
FlushTriggerKinds == {"Misprediction", "Control hazard resolved"}

\* C21: with forwarding enabled an advance call leaves cycle unchanged only when
\* it starts a flush, the two advance calls after it are drain steps that each
\* add 1 to cycle, so no two advance calls in a row keep cycle; and under
\* repeated advance calls cycle passes the last write-back cycle of the sequence
\* and the pipeline becomes empty.
C21_ProgressWithForwarding ==
    /\ [][(AdvanceCall /\ forwarding) =>
            /\ cycle' = cycle <=>
                  (flushing = 0 /\ flushing' = 2
                     /\ Last(explanations').kind \in FlushTriggerKinds)
            /\ cycle' # cycle => cycle' = cycle + 1
            /\ (Len(explanations) >= 1
                  /\ Last(explanations).kind \in FlushTriggerKinds) =>
                     (cycle' = cycle + 1 /\ flushing' = 1)
            /\ (Len(explanations) >= 2
                  /\ explanations[Len(explanations) - 1].kind \in FlushTriggerKinds
                  /\ Last(explanations).kind = "Flushing pipeline") =>
                     (cycle' = cycle + 1 /\ flushing' = 0)
         ]_vars
    /\ <>(/\ cycle >= Len(instructions) + Len(pipelineStages) - 1
          /\ ~SomeStageOccupied(cycle, instructions))

\* a branch flush behind it, the pipeline drained
C21_Witness ==
    /\ forwarding
    /\ stalls = 2
    /\ \E i \in 1..Len(explanations) : explanations[i].kind = "Flushing pipeline"
    /\ cycle = Len(instructions) + Len(pipelineStages) - 1
    /\ ~SomeStageOccupied(cycle, instructions)

\* cycle, stalls and flushing after an advance call, computed with every branch
\* predicted not taken
NotTakenStep ==
    IF flushing > 0 THEN <<cycle + 1, stalls, flushing - 1>>
    ELSE IF InHazardWindow /\ ~forwarding
            /\ detectRawHazard(PreviousInst, CurrentInst)
    THEN <<cycle, stalls + 1, flushing>>
    ELSE IF InHazardWindow /\ detectControlHazard(CurrentInst)
    THEN IF predictionEnabled /\ ~isBranchTaken(CurrentInst, registers)
         THEN <<cycle + 1, stalls, flushing>>
         ELSE <<cycle, stalls + 2, 2>>
    ELSE <<cycle + 1, stalls, flushing>>

\* the strategies the claim compares
NotTakenLike == {"always-not-taken", "1bit", "2bit"}

\* at a control-hazard evaluation the 1-bit and the 2-bit strategy both predict
\* not taken, and under each of the three strategies an advance call gives the
\* cycle, stalls and flushing of NotTakenStep
PredictsNotTaken ==
    /\ EvaluatesControlHazard =>
          /\ ~predictBranch(CurrentInst, branchHistory, "1bit", saturatingTable)
          /\ ~predictBranch(CurrentInst, branchHistory, "2bit", saturatingTable)
    /\ branchStrategy \in NotTakenLike =>
          <<cycle', stalls', flushing'>> = NotTakenStep

\* C22 as claimed: in one run on a sequence with distinct ids, no position is
\* hazard-evaluated twice (an advance call that reaches the hazard evaluation
\* finds no earlier evaluation recorded for its cycle), the 1-bit and 2-bit
\* strategies predict not taken at every branch evaluation, and the steps of
\* cycle, stalls and flushing are those of always-not-taken.
C22_EvaluatedOnce ==
    [][AdvanceCall =>
        /\ (flushing = 0 /\ InHazardWindow) =>
              \A i \in 1..Len(explanations) :
                  explanations[i].cycle = cycle =>
                      explanations[i].kind = "Flushing pipeline"
        /\ PredictsNotTaken
    ]_vars

\* C22, amended: in one run on a sequence with distinct ids, no position reaches
\* the control-hazard evaluation twice (a RAW stall evaluates the same position
\* again on every call, but returns before the predictor is read or written),
\* the 1-bit and 2-bit strategies predict not taken at every branch evaluation,
\* and the steps of cycle, stalls and flushing are those of always-not-taken.
C22_BranchEvaluatedOnce ==
    [][AdvanceCall =>
        /\ EvaluatesControlHazard =>
              \A i \in 1..Len(explanations) :
                  explanations[i].cycle = cycle =>
                      explanations[i].kind = "Flushing pipeline"
        /\ PredictsNotTaken
    ]_vars

\* the taken BEQ of the example sequence mispredicted under the 2-bit strategy,
\* after a repeated RAW stall
C22_Witness ==
    /\ instructions = instructionsExampleTyped
    /\ branchStrategy = "2bit"
    /\ DOMAIN saturatingTable = {3}
    /\ LastKinds(1) = <<"Misprediction">>
    /\ stalls = 4
    /\ cycle = 2

\* every flush of this run, triggered at some cycle c, left position c + 1
\* without a hazard evaluation: the only explanations for cycle c + 1 are drain
\* steps, and neither predictor table has an entry for the instruction there
PositionAfterFlushSkipped ==
    \A i \in 1..Len(explanations) :
        explanations[i].kind \in FlushTriggerKinds =>
            LET c == explanations[i].cycle
            IN /\ \A j \in 1..Len(explanations) :
                      explanations[j].cycle = c + 1 =>
                          explanations[j].kind = "Flushing pipeline"
               /\ c + 1 < Len(instructions) =>
                      instructions[c + 2].id
                          \notin (DOMAIN branchHistory \cup DOMAIN saturatingTable)

\* C23: after a flush is triggered at cycle c, the next two advance calls are
\* drain steps that take cycle to c + 1 and to c + 2 and leave stalls and both
\* predictor tables alone whatever instruction sits at position c + 1 and
\* whatever the forwarding flag; in the whole run position c + 1 is never
\* hazard-evaluated.
C23_SkipAfterFlush ==
    [][/\ (AdvanceCall /\ Len(explanations) >= 1
             /\ Last(explanations).kind \in FlushTriggerKinds) =>
              /\ flushing = 2
              /\ cycle' = Last(explanations).cycle + 1
              /\ Last(explanations').kind = "Flushing pipeline"
              /\ UNCHANGED <<stalls, branchHistory, saturatingTable>>
       /\ (AdvanceCall /\ Len(explanations) >= 2
             /\ explanations[Len(explanations) - 1].kind \in FlushTriggerKinds
             /\ Last(explanations).kind = "Flushing pipeline") =>
              /\ flushing = 1
              /\ cycle = explanations[Len(explanations) - 1].cycle + 1
              /\ cycle' = cycle + 1
              /\ flushing' = 0
              /\ Last(explanations').kind = "Flushing pipeline"
              /\ UNCHANGED <<stalls, branchHistory, saturatingTable>>
       /\ PositionAfterFlushSkipped'
    ]_vars

\* the flush of the first branch of LateBranches at cycle 4 has carried the
\* pipeline past the taken branch at position 5, with forwarding off
C23_Witness ==
    /\ instructions = LateBranches
    /\ detectControlHazard(instructions[6])
    /\ isBranchTaken(instructions[6], registers)
    /\ predictionEnabled
    /\ ~forwarding
    /\ branchStrategy = "2bit"
    /\ cycle = 6
    /\ stalls = 2
    /\ flushing = 0
    /\ DOMAIN saturatingTable = {instructions[5].id}

\* the explanations of the advance calls that are normal advances
NormalAdvanceKinds == {"executed without stall", "Branch prediction correct"}

\* the position (0-based) a record stands for: the one whose text is the
\* record's; when several instructions share that text (a record carries
\* nothing but the text), the one of them in write-back at the record's cycle
PositionsOf(record) ==
    {i \in 0..(Len(instructions) - 1) :
        /\ instructions[i + 1].text = record.inst
        /\ \/ i = record.cycle - 4
           \/ \A k \in 0..(Len(instructions) - 1) :
                 instructions[k + 1].text = record.inst => k = i}

\* C24: in one run the write-back log has no two records with the same cycle
\* and no two for the same position; a record for position i has cycle i + 4 and
\* a normal advance was made at that cycle; and when a flush was triggered at
\* cycle c, positions c - 4 and c - 3 have no record.
C24_WriteBackLog ==
    /\ \A a, b \in 1..Len(wbResults) :
          a # b => /\ wbResults[a].cycle # wbResults[b].cycle
                   /\ PositionsOf(wbResults[a]) \cap PositionsOf(wbResults[b]) = {}
    /\ \A a \in 1..Len(wbResults) :
          /\ PositionsOf(wbResults[a]) = {wbResults[a].cycle - 4}
          /\ \E j \in 1..Len(explanations) :
                /\ explanations[j].cycle = wbResults[a].cycle
                /\ explanations[j].kind \in NormalAdvanceKinds
    /\ \A j \in 1..Len(explanations) :
          explanations[j].kind \in FlushTriggerKinds =>
              \A a \in 1..Len(wbResults) :
                  PositionsOf(wbResults[a])
                      \cap {explanations[j].cycle - 4, explanations[j].cycle - 3} = {}

\* LateBranches after the flush triggered at cycle 4: the pipeline is past cycle
\* 6, position 2 has its record and positions 0 and 1 have none
C24_Witness ==
    /\ instructions = LateBranches
    /\ cycle = 7
    /\ \E j \in 1..Len(explanations) :
          explanations[j].kind \in FlushTriggerKinds /\ explanations[j].cycle = 4
    /\ Len(wbResults) = 1
    /\ wbResults[1].cycle = 6
    /\ wbResults[1].inst = instructions[3].text

\* C25: in every reachable state each of the five stages holds at most one
\* instruction, the one at position cycle - stage when that position exists, for
\* the active and for the pending sequence; no cell of the pipeline grid is
\* classified as a structural hazard.
C25_OnePerStage ==
    /\ \A insts \in {instructions, editInstructions} :
          \A s \in 0..(Len(pipelineStages) - 1) :
              LET held == getPipelineState(cycle, insts)[s + 1]
              IN /\ Len(held) <= 1
                 /\ Len(held) = 1 =>
                       /\ cycle - s \in 0..(Len(insts) - 1)
                       /\ held[1] = insts[cycle - s + 1].text
    /\ \A s \in 0..(Len(pipelineStages) - 1) :
          \A instIdx \in 0..Len(instructions) :
              getHazardType(s, instIdx) # "STRUCTURAL"

\* the example sequence at cycle 5 after a stall: four stages hold one
\* instruction each, the branch among them, and the first stage is empty
C25_Witness ==
    /\ instructions = instructionsExampleTyped
    /\ cycle = 5
    /\ stalls = 1
    /\ getPipelineState(cycle, instructions)[1] = <<>>
    /\ \A s \in 1..4 : Len(getPipelineState(cycle, instructions)[s + 1]) = 1
    /\ getHazardType(3, 0) = "CONTROL"
    /\ getHazardType(4, 0) = "NONE"

====
